---- MODULE Spec2Model ----
(***************************************************************************)
(* A model of flowkit/_utils/plot_utils.py: the gate plot orchestrator     *)
(* (plot_gate) as a state machine over a shared Sample, and the functions  *)
(* it is built from (_calculate_extent, render_ranges, render_rectangle,   *)
(* render_dividers, render_polygon, render_ellipse, plot_histogram,        *)
(* plot_scatter) as operators.                                             *)
(*                                                                         *)
(* Numbers.  Coordinates, bounds and extents are fixed-point: the integer  *)
(* n stands for the real n/1000 (Milli(3) is 3.0).  The inputs are whole   *)
(* numbers, so that the halves, the 2% and the 10% the code takes of them  *)
(* are exact.  A point radius (0.003 * bound) is kept in units of 1e-6.    *)
(* An optional value (a Python value that may be None) is a sequence:      *)
(* None is <<>>, the value v is <<v>>.                                     *)
(***************************************************************************)
EXTENDS Integers, Sequences, FiniteSets, TLC

VARIABLES
    sample,       \* the shared Sample: its subsample_indices (set by subsample_events)
    pc,           \* pc[i]: where invocation i of plot_gate stands
    args,         \* args[i]: the arguments of invocation i
    calls,        \* calls[i]: how often invocation i called each collaborator
    idx_to_plot,  \* idx_to_plot[i]: the local of that name (line 577-582)
    seen_indices, \* seen_indices[i]: sample.subsample_indices as invocation i read it
    ret,          \* ret[i]: what invocation i returned or raised
    call,         \* a direct call of one of the module's functions: its arguments
    out           \* ... and its result

vars == <<sample, pc, args, calls, idx_to_plot, seen_indices, ret, call, out>>

-----------------------------------------------------------------------------
(* Values *)

None == <<>>
Some(v) == <<v>>
IsNone(o) == o = <<>>
Val(o) == o[1]

Milli(n) == n * 1000

Abs(n) == IF n < 0 THEN -n ELSE n
Max2(a, b) == IF a >= b THEN a ELSE b
Min2(a, b) == IF a <= b THEN a ELSE b

RECURSIVE SeqMin(_)
SeqMin(s) == IF Len(s) = 1 THEN s[1] ELSE Min2(s[1], SeqMin(Tail(s)))

RECURSIVE SeqMax(_)
SeqMax(s) == IF Len(s) = 1 THEN s[1] ELSE Max2(s[1], SeqMax(Tail(s)))

Range(s) == {s[k] : k \in DOMAIN s}

\* All sequences over S of length 0..n
SeqsUpTo(S, n) == UNION {[1..k -> S] : k \in 0..n}

\* A raised exception, and a normal return
Raise(exc, line) == [status |-> exc, line |-> line]
Raised(r) == r.status # "ok"

-----------------------------------------------------------------------------
(* Module-level style constants, lines 14-18 *)

line_color == "#1F77B4"
line_color_contrast == "#73D587"
line_width == 3
fill_color == "lime"
\* gate_fill_alpha = 0.08, in percent
gate_fill_alpha == 8

-----------------------------------------------------------------------------
(* _calculate_extent, lines 109-121.  pad is in percent (pad=0.02 is 2).   *)
(* np.min of an empty array raises ValueError.                             *)

calculate_extent_unpadded_max(data_1d, d_min, d_max, pad) ==
    IF Len(data_1d) = 0 THEN Raise("ValueError", 110)
    ELSE LET data_min == SeqMin(data_1d)
             data_max == SeqMax(data_1d)
             pad_d == (Max2(Abs(data_min), Abs(data_max)) * pad) \div 100
         IN  [status |-> "ok",
              d_min |-> IF IsNone(d_min) THEN data_min - pad_d ELSE Val(d_min),
              d_max |-> IF IsNone(d_max) THEN data_max - pad_d ELSE Val(d_max)]

_calculate_extent(data_1d, d_min, d_max, pad) ==
    IF Len(data_1d) = 0 THEN Raise("ValueError", 110)
    ELSE LET data_min == SeqMin(data_1d)
             data_max == SeqMax(data_1d)
             pad_d == (Max2(Abs(data_min), Abs(data_max)) * pad) \div 100
         IN  [status |-> "ok",
              d_min |-> IF IsNone(d_min) THEN data_min - pad_d ELSE Val(d_min),
              d_max |-> IF IsNone(d_max) THEN data_max + pad_d ELSE Val(d_max)]

-----------------------------------------------------------------------------
(* The overlay primitives *)

Span(location, dimension) ==
    [glyph |-> "Span", location |-> location, dimension |-> dimension,
     line_width |-> line_width, line_color |-> line_color]

BoxAnnotation(left, right, bottom, top) ==
    [glyph |-> "BoxAnnotation", left |-> left, right |-> right,
     bottom |-> bottom, top |-> top,
     fill_alpha |-> gate_fill_alpha, fill_color |-> fill_color]

\* render_polygon, lines 124-143: the vertices unzipped into x and y columns
render_polygon(vertices) ==
    [glyph |-> "Patch",
     x |-> [k \in DOMAIN vertices |-> vertices[k][1]],
     y |-> [k \in DOMAIN vertices |-> vertices[k][2]],
     fill_color |-> fill_color, fill_alpha |-> gate_fill_alpha,
     line_width |-> line_width, line_color |-> line_color_contrast]

\* A bound as Python's truth value would test it: 0 counts as missing
Truthy(o) == ~IsNone(o) /\ Val(o) # 0

render_ranges_truthy(dim_minimums, dim_maximums) ==
    LET two == Len(dim_minimums) > 1
        left == IF Truthy(dim_minimums[1]) THEN dim_minimums[1] ELSE None
        right == IF Truthy(dim_maximums[1]) THEN dim_maximums[1] ELSE None
        bottom == IF two /\ Truthy(dim_minimums[2]) THEN dim_minimums[2] ELSE None
        top == IF two /\ Truthy(dim_maximums[2]) THEN dim_maximums[2] ELSE None
    IN  (IF IsNone(left) THEN <<>> ELSE <<Span(Val(left), "height")>>)
        \o (IF IsNone(right) THEN <<>> ELSE <<Span(Val(right), "height")>>)
        \o (IF IsNone(bottom) THEN <<>> ELSE <<Span(Val(bottom), "width")>>)
        \o (IF IsNone(top) THEN <<>> ELSE <<Span(Val(top), "width")>>)
        \o <<BoxAnnotation(left, right, bottom, top)>>

\* render_ranges, lines 146-194.  A Span of dimension 'height' is a vertical
\* line at x = location; of dimension 'width', a horizontal line at y = location.
render_ranges(dim_minimums, dim_maximums) ==
    LET two == Len(dim_minimums) > 1
        left == IF ~IsNone(dim_minimums[1]) THEN dim_minimums[1] ELSE None
        right == IF ~IsNone(dim_maximums[1]) THEN dim_maximums[1] ELSE None
        bottom == IF two /\ ~IsNone(dim_minimums[2]) THEN dim_minimums[2] ELSE None
        top == IF two /\ ~IsNone(dim_maximums[2]) THEN dim_maximums[2] ELSE None
    IN  (IF IsNone(left) THEN <<>> ELSE <<Span(Val(left), "height")>>)
        \o (IF IsNone(right) THEN <<>> ELSE <<Span(Val(right), "height")>>)
        \o (IF IsNone(bottom) THEN <<>> ELSE <<Span(Val(bottom), "width")>>)
        \o (IF IsNone(top) THEN <<>> ELSE <<Span(Val(top), "width")>>)
        \o <<BoxAnnotation(left, right, bottom, top)>>

\* render_rectangle with the centre taken as half the size
render_rectangle_half_size(dim_minimums, dim_maximums) ==
    [glyph |-> "Rect",
     x |-> (Val(dim_maximums[1]) - Val(dim_minimums[1])) \div 2,
     y |-> (Val(dim_maximums[2]) - Val(dim_minimums[2])) \div 2,
     width |-> Val(dim_maximums[1]) - Val(dim_minimums[1]),
     height |-> Val(dim_maximums[2]) - Val(dim_minimums[2]),
     fill_color |-> fill_color, fill_alpha |-> gate_fill_alpha,
     line_width |-> line_width]

\* render_rectangle, lines 197-219: the bounds are numbers here
render_rectangle(dim_minimums, dim_maximums) ==
    [glyph |-> "Rect",
     x |-> (Val(dim_minimums[1]) + Val(dim_maximums[1])) \div 2,
     y |-> (Val(dim_minimums[2]) + Val(dim_maximums[2])) \div 2,
     width |-> Val(dim_maximums[1]) - Val(dim_minimums[1]),
     height |-> Val(dim_maximums[2]) - Val(dim_minimums[2]),
     fill_color |-> fill_color, fill_alpha |-> gate_fill_alpha,
     line_width |-> line_width]

\* render_dividers, lines 222-240
render_dividers(x_locs, y_locs) ==
    [k \in DOMAIN x_locs |-> Span(x_locs[k], "height")]
    \o [k \in DOMAIN y_locs |-> Span(y_locs[k], "width")]

-----------------------------------------------------------------------------
(* render_ellipse, lines 243-275.                                          *)
(*                                                                         *)
(* A covariance matrix is <<<<a, b>>, <<b, c>>>> with whole-number         *)
(* entries; distance_square is a whole number.  The matrices drawn are     *)
(* those whose eigenpairs are exact: the diagonal ones, and those with     *)
(* a = c, whose eigenvectors lie on the diagonals.  An eigenvector is kept *)
(* as an integer direction (arctan2 does not depend on its length); an     *)
(* angle is in degrees (arctan2's pi/2 is 90).                             *)

\* np.linalg.eigh (line 253): the eigenvalues ascending, the eigenvectors the
\* columns of `vectors`.  For a diagonal matrix LAPACK returns the unit vectors,
\* in the order of the sorted eigenvalues; otherwise the sign of each
\* eigenvector is LAPACK's choice: sgn[j] is the sign of column j.
eigh(m, sgn) ==
    LET a == m[1][1]
        b == m[1][2]
        c == m[2][2]
    IN  IF b = 0
        THEN IF a <= c
             THEN [values |-> <<a, c>>, vectors |-> <<<<1, 0>>, <<0, 1>>>>]
             ELSE [values |-> <<c, a>>, vectors |-> <<<<0, 1>>, <<1, 0>>>>]
        ELSE IF b > 0
             \* a = c: a-b has (1,-1), a+b has (1,1)
             THEN [values |-> <<a - b, a + b>>,
                   vectors |-> <<<<sgn[1], sgn[2]>>, <<-sgn[1], sgn[2]>>>>]
             \* a = c, b < 0: a+b has (1,1), a-b has (1,-1)
             ELSE [values |-> <<a + b, a - b>>,
                   vectors |-> <<<<sgn[1], sgn[2]>>, <<sgn[1], -sgn[2]>>>>]

\* values.argsort() without the [::-1]: ascending
eigen_order_ascending(values) ==
    IF values[1] <= values[2] THEN <<1, 2>> ELSE <<2, 1>>

\* order = values.argsort()[::-1], line 254: the ascending order (ties in index
\* order), reversed.  Indices are 1-based here.
eigen_order(values) ==
    IF values[1] <= values[2] THEN <<2, 1>> ELSE <<1, 2>>

\* np.arctan2(y, x) in degrees, for the directions the eigenvectors take
arctan2(y, x) ==
    CASE x > 0 /\ y = 0 -> 0
      [] x > 0 /\ y > 0 -> 45
      [] x = 0 /\ y > 0 -> 90
      [] x < 0 /\ y > 0 -> 135
      [] x < 0 /\ y = 0 -> 180
      [] x < 0 /\ y < 0 -> -135
      [] x = 0 /\ y < 0 -> -90
      [] x > 0 /\ y < 0 -> -45
      [] OTHER -> 0

\* np.sqrt of a perfect square
Sqrt(n) == CHOOSE r \in 0..n : r * r = n

render_ellipse(center_x, center_y, covariance_matrix, distance_square, sgn) ==
    LET e == eigh(covariance_matrix, sgn)
        order == eigen_order(e.values)
        values == <<e.values[order[1]], e.values[order[2]]>>
        \* vectors[:, order]: column j is the old column order[j]
        vectors == <<<<e.vectors[1][order[1]], e.vectors[1][order[2]]>>,
                     <<e.vectors[2][order[1]], e.vectors[2][order[2]]>>>>
        \* vectors[:, 0][::-1] is (v_y, v_x): arctan2(v_y, v_x)
        angle_rads == arctan2(vectors[2][1], vectors[1][1])
    IN  [glyph |-> "Ellipse", x |-> center_x, y |-> center_y,
         width |-> Milli(2 * Sqrt(values[1] * distance_square)),
         height |-> Milli(2 * Sqrt(values[2] * distance_square)),
         angle |-> angle_rads,
         line_width |-> line_width, line_color |-> line_color,
         fill_color |-> fill_color, fill_alpha |-> gate_fill_alpha]

\* The overlay of a RectangleGate, lines 668-679 of plot_gate: ranges when a
\* bound is missing or the gate has one dimension, else a true rectangle.
\* `None in dim_min` is Python's list membership.
rectangle_overlay(dim_min, dim_max, dim_count) ==
    IF (\E k \in DOMAIN dim_min : IsNone(dim_min[k]))
       \/ (\E k \in DOMAIN dim_max : IsNone(dim_max[k]))
       \/ dim_count = 1
    THEN render_ranges(dim_min, dim_max)
    ELSE <<render_rectangle(dim_min, dim_max)>>

-----------------------------------------------------------------------------
(* plot_histogram, lines 278-310: np.histogram with bins='sqrt' when bins  *)
(* is None.  The figure keeps the data and the number of bars.             *)

\* The least r with r*r >= n: numpy's 'sqrt' rule, ceil(sqrt(n))
CeilSqrt(n) == CHOOSE r \in 0..n : r * r >= n /\ (r = 0 \/ (r - 1) * (r - 1) < n)

plot_histogram(x, x_label) ==
    [status |-> "ok", kind |-> "hist", x |-> x,
     bins |-> Max2(1, CeilSqrt(Len(x))),
     x_label |-> x_label, y_label |-> "Event Count",
     renderers |-> <<>>, titles |-> <<>>]

-----------------------------------------------------------------------------
(* plot_scatter, lines 313-476.                                            *)
(*                                                                         *)
(* x and y are equal-length sequences; a mask is None or a sequence of     *)
(* BOOLEAN of that length.  Every drawn point carries `src`, its index in  *)
(* the x and y given, so that it can be followed through the filtering and *)
(* the two reorderings.                                                    *)
(* z_interp is what scipy's interpn returns for the points left after      *)
(* filtering (line 415), one optional value each: None is NaN.             *)

grey == <<"#d3d3d3", 0>>
\* fill_alpha of a highlighted (or every, without a mask) point, in percent
alpha_highlight == 40
\* fill_alpha of a point that is not highlighted, in percent
alpha_dimmed == 30
\* new_jet has 256 entries (line 41)
lut_size == 256
\* the 2% padding plot_scatter asks of _calculate_extent (lines 365, 367)
scatter_pad == 2

\* The positions a Boolean mask selects, ascending: x[mask]
RECURSIVE flatnonzero(_)
flatnonzero(mask) ==
    IF Len(mask) = 0 THEN <<>>
    ELSE LET n == Len(mask)
         IN  flatnonzero(SubSeq(mask, 1, n - 1)) \o (IF mask[n] THEN <<n>> ELSE <<>>)

Negate(mask) == [k \in DOMAIN mask |-> ~mask[k]]

\* a[idx]: fancy indexing by a sequence of positions
Take(a, idx) == [k \in DOMAIN idx |-> a[idx[k]]]

\* z.argsort() read backwards: the positions in descending order of value
argsort_descending(z) ==
    LET n == Len(z)
        rank(k) == Cardinality({j \in 1..n : z[j] > z[k] \/ (z[j] = z[k] /\ j > k)}) + 1
    IN  [r \in 1..n |-> CHOOSE k \in 1..n : rank(k) = r]

\* z.argsort(): the positions of z in ascending order of value, equal values
\* in index order (numpy sorts arrays this short by insertion)
argsort(z) ==
    LET n == Len(z)
        rank(k) == Cardinality({j \in 1..n : z[j] < z[k] \/ (z[j] = z[k] /\ j < k)}) + 1
    IN  [r \in 1..n |-> CHOOSE k \in 1..n : rank(k) = r]

\* int(): truncation toward zero of the quotient a/b, b # 0
IntDiv(a, b) ==
    IF (a >= 0) = (b > 0) THEN Abs(a) \div Abs(b) ELSE -(Abs(a) \div Abs(b))

\* new_jet(colors.Normalize()(z))[k] as a colour: the entry of the lookup table.
\* Normalize maps z to (z - min)/(max - min), or to 0 when min = max; the
\* colormap takes entry int(v * N), the value 1.0 taking the last entry.
z_color(z, k) ==
    LET vmin == SeqMin(z)
        vmax == SeqMax(z)
    IN  IF vmin = vmax THEN <<"new_jet", 0>>
        ELSE <<"new_jet", Min2(lut_size - 1, ((z[k] - vmin) * lut_size) \div (vmax - vmin))>>

\* Lines 379-396 for one axis: the number of bins.  bin_count is
\* int(1 / (bin_width * 0.003)) = int(1000 / (3 * bin_width)).  A view range of
\* zero makes the multiplier inf or nan, and int() of it raises.
axis_bin_count(data, v_min, v_max, bin_width) ==
    LET bin_count == IntDiv(1000, 3 * bin_width)
        view_range == v_max - v_min
        data_range == SeqMax(data) - SeqMin(data)
    IN  IF view_range = 0
        THEN Raise(IF data_range = 0 THEN "ValueError" ELSE "OverflowError", 394)
        ELSE LET n == IntDiv(data_range * bin_count, view_range)
             IN  [status |-> "ok", bins |-> IF n <= 0 THEN 1 ELSE n]

\* Lines 376-432: the density z of every point and the order idx the points are
\* drawn in (the identity when color_density is off).
scatter_density(x, y, x_min, x_max, y_min, y_max, color_density, bin_width, z_interp) ==
    IF ~color_density
    THEN [status |-> "ok", z |-> [k \in DOMAIN x |-> 0], idx |-> [k \in DOMAIN x |-> k],
          x_bin_count |-> 0, y_bin_count |-> 0]
    ELSE IF IsNone(x_min) THEN Raise("TypeError", 383)
    ELSE IF IsNone(y_min) THEN Raise("TypeError", 384)
    ELSE IF Len(x) = 0 THEN Raise("ValueError", 386)
    ELSE LET xb == axis_bin_count(x, Val(x_min), Val(x_max), bin_width)
             yb == axis_bin_count(y, Val(y_min), Val(y_max), bin_width)
             \* z[np.isnan(z)] = 0, line 422
             z == [k \in DOMAIN x |-> IF IsNone(z_interp[k]) THEN 0 ELSE Val(z_interp[k])]
             idx == argsort(z)
         IN  IF Raised(xb) THEN xb
             ELSE IF Raised(yb) THEN [yb EXCEPT !.line = 396]
             ELSE [status |-> "ok", z |-> Take(z, idx), idx |-> idx,
                   x_bin_count |-> xb.bins, y_bin_count |-> yb.bins]

\* Lines 439-454 with the highlight test inverted
highlight_order_inverted(highlight_mask) ==
    flatnonzero(highlight_mask) \o flatnonzero(Negate(highlight_mask))

\* final_idx of lines 445-447: the positions not highlighted, then the highlighted
highlight_order(highlight_mask) ==
    flatnonzero(Negate(highlight_mask)) \o flatnonzero(highlight_mask)

\* Lines 440-443 with the two alphas exchanged
point_style_swapped(color, highlighted) ==
    IF highlighted THEN [color |-> color, alpha |-> alpha_dimmed]
    ELSE [color |-> grey, alpha |-> alpha_highlight]

\* Lines 440-443 for one point under a highlight mask: its colour and alpha
point_style(color, highlighted) ==
    IF highlighted THEN [color |-> color, alpha |-> alpha_highlight]
    ELSE [color |-> grey, alpha |-> alpha_dimmed]

plot_scatter(x, y, x_label, y_label, event_mask, highlight_mask, x_min, x_max, y_min, y_max, color_density, bin_width, z_interp) ==
    LET \* lines 355-362
        keep == IF IsNone(event_mask) THEN [k \in DOMAIN x |-> k]
                ELSE flatnonzero(Val(event_mask))
        xf == Take(x, keep)
        yf == Take(y, keep)
        hl == IF IsNone(highlight_mask) \/ IsNone(event_mask) THEN highlight_mask
              ELSE Some(Take(Val(highlight_mask), keep))
        \* lines 364-367
        ex == _calculate_extent(xf, x_min, x_max, scatter_pad)
        ey == _calculate_extent(yf, y_min, y_max, scatter_pad)
        x_lo == IF Len(xf) > 0 THEN Some(ex.d_min) ELSE x_min
        x_hi == IF Len(xf) > 0 THEN Some(ex.d_max) ELSE x_max
        y_lo == IF Len(yf) > 0 THEN Some(ey.d_min) ELSE y_min
        y_hi == IF Len(yf) > 0 THEN Some(ey.d_max) ELSE y_max
    IN  \* line 369: None > None, or a number against None, raises TypeError
        IF IsNone(y_hi) \/ IsNone(x_hi) THEN Raise("TypeError", 369)
        ELSE
        LET by_y == Val(y_hi) > Val(x_hi)
            radius_dimension == IF by_y THEN "y" ELSE "x"
            \* 0.003 * bound, in units of 1e-6
            radius == 3 * (IF by_y THEN Val(y_hi) ELSE Val(x_hi))
            d == scatter_density(xf, yf, x_lo, x_hi, y_lo, y_hi,
                                 color_density, bin_width, z_interp)
        IN  IF Raised(d) THEN d
            ELSE
            LET n == Len(xf)
                \* after the density sort, lines 426-430
                src1 == Take(keep, d.idx)
                x1 == Take(xf, d.idx)
                y1 == Take(yf, d.idx)
                hl1 == IF IsNone(hl) THEN None ELSE Some(Take(Val(hl), d.idx))
                z_colors == [k \in 1..n |-> z_color(d.z, k)]
                \* lines 439-454
                final_idx == IF IsNone(hl1) THEN [k \in 1..n |-> k]
                             ELSE highlight_order(Val(hl1))
                style(k) == IF IsNone(hl1)
                            THEN [color |-> z_colors[k], alpha |-> alpha_highlight]
                            ELSE point_style(z_colors[k], Val(hl1)[k])
            IN  [status |-> "ok", kind |-> "scatter",
                 \* x, y, z, highlight_mask, z_colors and fill_alpha as they stand
                 \* at line 444, before the highlighted points are moved last
                 sorted |-> [k \in 1..n |->
                               [src |-> src1[k], x |-> x1[k], y |-> y1[k], z |-> d.z[k],
                                highlight |-> IF IsNone(hl1) THEN None ELSE Some(Val(hl1)[k]),
                                color |-> style(k).color, alpha |-> style(k).alpha]],
                 points |-> [j \in DOMAIN final_idx |->
                               LET k == final_idx[j]
                               IN  [src |-> src1[k], x |-> x1[k], y |-> y1[k],
                                    color |-> style(k).color, alpha |-> style(k).alpha]],
                 radius |-> radius, radius_dimension |-> radius_dimension,
                 x_range |-> <<x_lo, x_hi>>, y_range |-> <<y_lo, y_hi>>,
                 x_bin_count |-> d.x_bin_count, y_bin_count |-> d.y_bin_count,
                 x_label |-> x_label, y_label |-> y_label,
                 renderers |-> <<>>, titles |-> <<>>]

-----------------------------------------------------------------------------
(* The collaborators of plot_gate: the Sample, the GatingStrategy and its  *)
(* compensation matrix.  Their code is not part of plot_utils.py; they are  *)
(* modelled by what plot_gate asks of them.                                *)

\* Bounds of the model
NEvents == 3
MaxSeed == 2

Invocations == {1, 2}

sample_id == "B07"
event_count == NEvents
pnn_labels == <<"FSC-H", "SSC-H", "FL1-H">>
pns_labels == <<"", "", "CD3">>

\* The order a seed shuffles the events into: a rotation by the seed
Shuffled(random_seed) == [k \in 1..NEvents |-> ((k + random_seed - 1) % NEvents) + 1]

\* Sample.subsample_events: the first subsample_count events of the seed's
\* shuffle (all of them when the sample has fewer), kept in the sample
subsample_events(s, subsample_count, random_seed) ==
    [s EXCEPT !.subsample_indices =
        SubSeq(Shuffled(random_seed), 1, Min2(subsample_count, NEvents))]

Seeds == 1..MaxSeed
SubsampleCounts == {2, NEvents}
Subsamples == {subsample_events([subsample_indices |-> <<>>], c, r).subsample_indices :
                 c \in SubsampleCounts, r \in Seeds}

\* Sample.get_channel_index: the position of a label among the PnN labels,
\* None standing for the ValueError it raises when there is none
get_channel_index(label) ==
    IF \E k \in DOMAIN pnn_labels : pnn_labels[k] = label
    THEN Some(CHOOSE k \in DOMAIN pnn_labels : pnn_labels[k] = label)
    ELSE None

\* GatingStrategy.get_comp_matrix: the one matrix, its detectors and fluorochromes
matrix == [detectors |-> <<"FL1-H">>, fluorochomes |-> <<"FITC">>]

\* GatingStrategy._preprocess_sample_events: the value of event e in the column
\* of a dimension.  The columns hold whole numbers.
events(e, column) ==
    CASE column = "FSC-H" -> Milli(e)
      [] column = "SSC-H" -> Milli(2 * (NEvents - e))
      [] column = "FITC" -> Milli(e - 2)
      [] OTHER -> Milli(1)

\* The dimensions of the gates
Dim(id, lo, hi) ==
    [kind |-> "Dimension", id |-> id, dimension_ref |-> "", values |-> <<>>,
     min |-> lo, max |-> hi, compensation_ref |-> "MySpill"]
Ratio(ref, lo, hi) ==
    [kind |-> "RatioDimension", id |-> ref, dimension_ref |-> "", values |-> <<>>,
     min |-> lo, max |-> hi, compensation_ref |-> "uncompensated"]
Divider(id, ref, values) ==
    [kind |-> "QuadrantDivider", id |-> id, dimension_ref |-> ref, values |-> values,
     min |-> None, max |-> None, compensation_ref |-> "MySpill"]

Gate(gate_type, gate_path, dimensions) ==
    [gate_type |-> gate_type, gate_path |-> gate_path, dimensions |-> dimensions,
     vertices |-> <<>>, coordinates |-> <<>>, covariance_matrix |-> <<>>,
     distance_square |-> 0]

Root == Some(<<"root">>)

\* GatingStrategy.get_gate: the gates of the strategy, by name
get_gate(gate_name) ==
    CASE gate_name = "Bool1" -> Gate("BooleanGate", Root, <<>>)
      [] gate_name = "Poly1" ->
            [Gate("PolygonGate", Root, <<Dim("FSC-H", None, None), Dim("SSC-H", None, None)>>)
                EXCEPT !.vertices = <<<<Milli(0), Milli(0)>>, <<Milli(2), Milli(0)>>,
                                      <<Milli(1), Milli(3)>>>>]
      [] gate_name = "Ellipse1" ->
            [Gate("EllipsoidGate", Some(<<"root", "Poly1">>),
                  <<Dim("FSC-H", None, None), Dim("SSC-H", None, None)>>)
                EXCEPT !.coordinates = <<Milli(0), Milli(0)>>,
                       !.covariance_matrix = <<<<1, 0>>, <<0, 1>>>>,
                       !.distance_square = 1]
      [] gate_name = "Rect1" ->
            Gate("RectangleGate", Root,
                 <<Dim("FSC-H", Some(Milli(0)), Some(Milli(2))),
                   Dim("SSC-H", Some(Milli(0)), Some(Milli(4)))>>)
      [] gate_name = "Range2" ->
            Gate("RectangleGate", None,
                 <<Dim("FSC-H", Some(Milli(1)), None),
                   Dim("FITC", None, Some(Milli(5)))>>)
      [] gate_name = "Range1" ->
            Gate("RectangleGate", Root, <<Dim("FSC-H", Some(Milli(1)), Some(Milli(2)))>>)
      [] gate_name = "RatioRange" ->
            Gate("RectangleGate", Root, <<Ratio("FSC/SSC", None, Some(Milli(3)))>>)
      [] gate_name = "Quad1" ->
            Gate("QuadrantGate", Root,
                 <<Divider("D1", "FSC-H", <<Milli(2)>>), Divider("D2", "SSC-H", <<Milli(3)>>)>>)
      [] gate_name = "Quad2" ->
            Gate("QuadrantGate", Root,
                 <<Divider("D1", "FITC", <<Milli(1)>>),
                   Divider("D2", "SSC-H", <<Milli(3), Milli(4)>>)>>)
      [] gate_name = "Rect0" -> Gate("RectangleGate", Root, <<>>)
      [] gate_name = "Rect3" ->
            Gate("RectangleGate", Root,
                 <<Dim("FSC-H", None, None), Dim("SSC-H", None, None),
                   Dim("FL1-H", None, None)>>)
      [] OTHER ->
            Gate("Quadrant", Root, <<Dim("FSC-H", None, None), Dim("SSC-H", None, None)>>)

GateNames == {"Bool1", "Poly1", "Ellipse1", "Rect1", "Range2", "Range1", "RatioRange",
              "Quad1", "Quad2", "Rect0", "Rect3", "Q1"}

-----------------------------------------------------------------------------
(* plot_gate, lines 478-721, in the four steps between which another       *)
(* invocation on the same Sample can run: resolving the gate (no shared    *)
(* state), the call of sample.subsample_events (a write of the Sample),    *)
(* the read of sample.subsample_indices, and the rendering (local).        *)

\* Lines 529-554: the id each dimension is plotted by, and its bounds
dim_ids_ordered(gate) ==
    [k \in DOMAIN gate.dimensions |->
        IF gate.dimensions[k].kind = "QuadrantDivider"
        THEN gate.dimensions[k].dimension_ref ELSE gate.dimensions[k].id]
dim_is_ratio(gate) ==
    [k \in DOMAIN gate.dimensions |-> gate.dimensions[k].kind = "RatioDimension"]
dim_min(gate) ==
    [k \in DOMAIN gate.dimensions |->
        IF gate.dimensions[k].kind = "QuadrantDivider" THEN None ELSE gate.dimensions[k].min]
dim_max(gate) ==
    [k \in DOMAIN gate.dimensions |->
        IF gate.dimensions[k].kind = "QuadrantDivider" THEN None ELSE gate.dimensions[k].max]

\* Lines 526-566 without the Boolean test
gate_check_no_boolean(gate) ==
    LET dim_count == Len(gate.dimensions)
    IN  IF dim_count = 1 THEN [status |-> "ok", gate_type |-> "hist"]
        ELSE IF dim_count = 2 THEN [status |-> "ok", gate_type |-> "scatter"]
        ELSE IF dim_count > 2 THEN Raise("NotImplementedError", 563)
        ELSE Raise("ValueError", 566)

\* Lines 526-566 accepting any non-zero dimension count
gate_check_no_upper(gate) ==
    LET dim_count == Len(gate.dimensions)
    IN  IF gate.gate_type = "BooleanGate" THEN Raise("TypeError", 527)
        ELSE IF dim_count = 1 THEN [status |-> "ok", gate_type |-> "hist"]
        ELSE IF dim_count >= 2 THEN [status |-> "ok", gate_type |-> "scatter"]
        ELSE Raise("ValueError", 566)

\* Lines 526-566: a Boolean gate is rejected, then the dimension count decides
\* the kind of plot
gate_check(gate) ==
    LET dim_count == Len(gate.dimensions)
    IN  IF gate.gate_type = "BooleanGate" THEN Raise("TypeError", 527)
        ELSE IF dim_count = 1 THEN [status |-> "ok", gate_type |-> "hist"]
        ELSE IF dim_count = 2 THEN [status |-> "ok", gate_type |-> "scatter"]
        ELSE IF dim_count > 2 THEN Raise("NotImplementedError", 563)
        ELSE Raise("ValueError", 566)

\* Line 569 skipped when the sample already holds a subsample
apply_subsampling_cached(s, subsample_count, random_seed) ==
    IF Len(s.subsample_indices) > 0 THEN s
    ELSE subsample_events(s, subsample_count, random_seed)

\* Line 569: sample.subsample_events(subsample_count=..., random_seed=...)
apply_subsampling(s, subsample_count, random_seed) ==
    subsample_events(s, subsample_count, random_seed)

\* Lines 577-582 with the mask alone deciding
select_idx_mask_only(event_mask, subsample_indices) ==
    IF ~IsNone(event_mask) THEN flatnonzero(Val(event_mask)) ELSE subsample_indices

\* Lines 577-582: the rows events.loc[idx_to_plot, ...] yields, in its order.
\* With a mask, idx_to_plot is the Boolean vector mask AND is_subsample and the
\* rows come in table order; without, it is sample.subsample_indices itself.
select_idx(event_mask, subsample_indices) ==
    IF ~IsNone(event_mask)
    THEN LET is_subsample == [e \in 1..event_count |-> e \in Range(subsample_indices)]
         IN  flatnonzero([e \in 1..event_count |-> Val(event_mask)[e] /\ is_subsample[e]])
    ELSE subsample_indices

\* Lines 588-609 (x) and 613-635 (y): the channel a dimension id resolves to,
\* directly or through the matrix's fluorochromes, and the axis label.  A label
\* is the sequence of its parts: <<pnn>>, or <<pns, pnn>> for 'pns (pnn)'.
axis_label(dim_id, is_ratio, line) ==
    IF is_ratio THEN [status |-> "ok", label |-> <<dim_id>>, pnn_label |-> None, lookups |-> 0]
    ELSE LET direct == get_channel_index(dim_id)
             in_matrix == \E k \in DOMAIN matrix.fluorochomes : matrix.fluorochomes[k] = dim_id
             matrix_dim_idx == CHOOSE k \in DOMAIN matrix.fluorochomes :
                                  matrix.fluorochomes[k] = dim_id
             via == get_channel_index(matrix.detectors[matrix_dim_idx])
             index == IF ~IsNone(direct) THEN direct ELSE via
         IN  IF IsNone(direct) /\ ~in_matrix THEN Raise("ValueError", line)
             ELSE IF IsNone(index) THEN Raise("ValueError", line + 2)
             ELSE [status |-> "ok",
                   label |-> IF pns_labels[Val(index)] # ""
                             THEN <<pns_labels[Val(index)], pnn_labels[Val(index)]>>
                             ELSE <<pnn_labels[Val(index)]>>,
                   pnn_label |-> Some(pnn_labels[Val(index)]),
                   lookups |-> IF IsNone(direct) THEN 2 ELSE 1]

\* Lines 681-688: the divider values on each axis
RECURSIVE divider_locations(_, _, _)
divider_locations(dimensions, pnn_label, other_label) ==
    IF Len(dimensions) = 0 THEN <<>>
    ELSE LET div == dimensions[1]
             mine == Some(div.dimension_ref) = pnn_label
                     /\ Some(div.dimension_ref) # other_label
         IN  (IF mine THEN div.values ELSE <<>>)
             \o divider_locations(Tail(dimensions), pnn_label, other_label)

\* Lines 657-695: the overlay of the gate, or the error for a gate class that
\* has none
gate_overlay(gate, x_pnn_label, y_pnn_label) ==
    CASE gate.gate_type = "PolygonGate" ->
            [status |-> "ok", renderers |-> <<render_polygon(gate.vertices)>>]
      [] gate.gate_type = "EllipsoidGate" ->
            [status |-> "ok",
             renderers |-> <<render_ellipse(gate.coordinates[1], gate.coordinates[2],
                                gate.covariance_matrix, gate.distance_square, <<1, 1>>)>>]
      [] gate.gate_type = "RectangleGate" ->
            [status |-> "ok",
             renderers |-> rectangle_overlay(dim_min(gate), dim_max(gate),
                                             Len(gate.dimensions))]
      [] gate.gate_type = "QuadrantGate" ->
            [status |-> "ok",
             renderers |-> render_dividers(
                 divider_locations(gate.dimensions, x_pnn_label, None),
                 IF IsNone(y_pnn_label) THEN <<>>
                 ELSE divider_locations(gate.dimensions, y_pnn_label, x_pnn_label))]
      [] OTHER -> Raise("NotImplementedError", 693)

\* Lines 697-719: the two titles.  The sub title is the sequence of the names
\* ' > ' joins; the names here are short of the 72 characters past which it is cut.
gate_titles(gate_name, gate_path) ==
    <<IF ~IsNone(gate_path) THEN Tail(Val(gate_path)) \o <<gate_name>> ELSE <<gate_name>>,
      <<sample_id>>>>

\* Lines 584-721: the figure plot_gate returns for the rows idx, or what it raises
render_gate(a, gate, idx, z_interp) ==
    LET ids == dim_ids_ordered(gate)
        ratio == dim_is_ratio(gate)
        dim_count == Len(ids)
        x == [k \in DOMAIN idx |-> events(idx[k], ids[1])]
        xl == axis_label(ids[1], ratio[1], 600)
        yl == IF dim_count > 1 THEN axis_label(ids[2], ratio[2], 626)
              ELSE [status |-> "ok", label |-> <<>>, pnn_label |-> None, lookups |-> 0]
    IN  IF Raised(xl) THEN xl
        ELSE IF Raised(yl) THEN yl
        ELSE
        LET y == [k \in DOMAIN idx |-> events(idx[k], ids[2])]
            p == IF gate_check(gate).gate_type = "scatter"
                 THEN plot_scatter(x, y, xl.label, yl.label, None, None,
                                   a.x_min, a.x_max, a.y_min, a.y_max,
                                   a.color_density, a.bin_width, z_interp)
                 ELSE plot_histogram(x, xl.label)
            o == gate_overlay(gate, xl.pnn_label, yl.pnn_label)
        IN  IF Raised(p) THEN p
            ELSE IF Raised(o) THEN o
            ELSE [p EXCEPT !.renderers = o.renderers,
                           !.titles = gate_titles(a.gate_name, gate.gate_path)]

\* The get_channel_index calls of lines 593-628
channel_lookups(gate) ==
    LET ids == dim_ids_ordered(gate)
        ratio == dim_is_ratio(gate)
        xl == axis_label(ids[1], ratio[1], 600)
        yl == axis_label(ids[2], ratio[2], 626)
    IN  IF Raised(xl) THEN 1
        ELSE xl.lookups + (IF Len(ids) < 2 THEN 0 ELSE IF Raised(yl) THEN 1 ELSE yl.lookups)

-----------------------------------------------------------------------------
(* The state machine of plot_gate *)

NoCalls == [subsample_events |-> 0, preprocess |-> 0, get_channel_index |-> 0]
NotReturned == [status |-> "none"]
NoCall == [fn |-> "none"]

\* The parent masks: every Boolean vector over the events
EventMasks == {None} \cup {Some(m) : m \in [1..NEvents -> BOOLEAN]}
OddMask == Some([e \in 1..NEvents |-> e % 2 = 1])

NoBounds == [x_min |-> None, x_max |-> None, y_min |-> None, y_max |-> None]
SomeBounds == [x_min |-> Some(Milli(-1)), x_max |-> Some(Milli(6)),
               y_min |-> Some(Milli(0)), y_max |-> Some(Milli(8))]

PlotArgs(names, masks, bounds, densities) ==
    {[gate_name |-> g, subsample_count |-> c, random_seed |-> r, event_mask |-> m,
      x_min |-> b.x_min, x_max |-> b.x_max, y_min |-> b.y_min, y_max |-> b.y_max,
      color_density |-> d, bin_width |-> 4] :
        g \in names, c \in SubsampleCounts, r \in Seeds, m \in masks,
        b \in bounds, d \in densities}

\* What the sample holds before plot_gate is called: nothing yet, or the
\* subsample of an earlier call
InitialSubsamples == {<<>>} \cup {s \in Subsamples : Len(s) = 2}

\* The densities interpn answers with in plot_gate's runs: NaN or 1
GateDensities == {None, Some(1)}

IdleGate ==
    /\ sample = [subsample_indices |-> <<>>]
    /\ pc = [i \in Invocations |-> "done"]
    /\ args = [i \in Invocations |-> NoCall]
    /\ calls = [i \in Invocations |-> NoCalls]
    /\ idx_to_plot = [i \in Invocations |-> <<>>]
    /\ seen_indices = [i \in Invocations |-> <<>>]
    /\ ret = [i \in Invocations |-> NotReturned]

InitGate(args1, args2) ==
    /\ sample \in [subsample_indices : InitialSubsamples]
    /\ pc = [i \in Invocations |-> "start"]
    /\ \E a1 \in args1, a2 \in args2 : args = [i \in Invocations |-> IF i = 1 THEN a1 ELSE a2]
    /\ calls = [i \in Invocations |-> NoCalls]
    /\ idx_to_plot = [i \in Invocations |-> <<>>]
    /\ seen_indices = [i \in Invocations |-> <<>>]
    /\ ret = [i \in Invocations |-> NotReturned]
    /\ call = NoCall
    /\ out = NotReturned

\* Lines 521-566
Resolve(i) ==
    /\ pc[i] = "start"
    /\ LET chk == gate_check(get_gate(args[i].gate_name))
       IN  IF Raised(chk)
           THEN /\ ret' = [ret EXCEPT ![i] = chk]
                /\ pc' = [pc EXCEPT ![i] = "done"]
           ELSE /\ ret' = ret
                /\ pc' = [pc EXCEPT ![i] = "subsample"]
    /\ UNCHANGED <<sample, args, calls, idx_to_plot, seen_indices, call, out>>

\* Lines 568-569
SubsampleEvents(i) ==
    /\ pc[i] = "subsample"
    /\ sample' = apply_subsampling(sample, args[i].subsample_count, args[i].random_seed)
    /\ calls' = [calls EXCEPT ![i].subsample_events = @ + 1]
    /\ pc' = [pc EXCEPT ![i] = "select"]
    /\ UNCHANGED <<args, idx_to_plot, seen_indices, ret, call, out>>

\* Lines 571-582
Select(i) ==
    /\ pc[i] = "select"
    /\ calls' = [calls EXCEPT ![i].preprocess = @ + 1]
    /\ seen_indices' = [seen_indices EXCEPT ![i] = sample.subsample_indices]
    /\ idx_to_plot' = [idx_to_plot EXCEPT
                          ![i] = select_idx(args[i].event_mask, sample.subsample_indices)]
    /\ pc' = [pc EXCEPT ![i] = "render"]
    /\ UNCHANGED <<sample, args, ret, call, out>>

\* Lines 584-721
Render(i) ==
    /\ pc[i] = "render"
    /\ LET gate == get_gate(args[i].gate_name)
           dense == Len(gate.dimensions) = 2 /\ args[i].color_density
       IN  \E z \in IF dense THEN [1..Len(idx_to_plot[i]) -> GateDensities] ELSE {<<>>} :
              /\ ret' = [ret EXCEPT ![i] = render_gate(args[i], gate, idx_to_plot[i], z)]
              /\ calls' = [calls EXCEPT ![i].get_channel_index = @ + channel_lookups(gate)]
    /\ pc' = [pc EXCEPT ![i] = "done"]
    /\ UNCHANGED <<sample, args, idx_to_plot, seen_indices, call, out>>

NextGate == \E i \in Invocations : Resolve(i) \/ SubsampleEvents(i) \/ Select(i) \/ Render(i)

\* One caller with every argument, beside a second that plots the polygon gate
Args1 == PlotArgs(GateNames, EventMasks, {NoBounds, SomeBounds}, BOOLEAN)
Args2 == {a \in PlotArgs({"Poly1"}, {None}, {NoBounds}, {FALSE}) :
            a.subsample_count = 2 /\ a.random_seed = 1}

Init == InitGate(Args1, Args2)
Next == NextGate
Spec == Init /\ [][Next]_vars

\* Two callers of the same sample, each with its own seed, count and mask
ConcurrentArgs == PlotArgs({"Poly1", "Range1"}, {None, OddMask}, {NoBounds}, {FALSE})

InitConcurrent == InitGate(ConcurrentArgs, ConcurrentArgs)
SpecConcurrent == InitConcurrent /\ [][NextGate]_vars

-----------------------------------------------------------------------------
(* Direct calls of the module's functions: `call` holds the arguments,     *)
(* `out` what the function returned or raised.                             *)

\* Bounds of the inputs
MaxLen == 3
MaxBound == 5
MaxPoints == 3

OptBounds == {None} \cup {Some(Milli(v)) : v \in -1..MaxBound}

InitCall(calls_) ==
    /\ IdleGate
    /\ call \in calls_
    /\ out = NotReturned

\* _calculate_extent on data of whole numbers, the data of the documented
\* example among them; pad is 0, 2% or 10%
ExtentValues == {Milli(-3), Milli(0), Milli(1), Milli(5)}
ExtentData == SeqsUpTo(ExtentValues, MaxLen)
                \cup {<<Milli(1), Milli(2), Milli(3), Milli(4), Milli(5)>>}
ExtentCalls ==
    {[fn |-> "_calculate_extent", data_1d |-> d, d_min |-> lo, d_max |-> hi, pad |-> p] :
        d \in ExtentData, lo \in {None, Some(Milli(-1)), Some(Milli(2))},
        hi \in {None, Some(Milli(-1)), Some(Milli(2))}, p \in {0, 2, 10}}

CallCalculateExtent ==
    /\ call.fn = "_calculate_extent"
    /\ out = NotReturned
    /\ out' = _calculate_extent(call.data_1d, call.d_min, call.d_max, call.pad)
    /\ UNCHANGED <<sample, pc, args, calls, idx_to_plot, seen_indices, ret, call>>

InitExtent == InitCall(ExtentCalls)
NextExtent == CallCalculateExtent
SpecExtent == InitExtent /\ [][NextExtent]_vars

\* The overlay of a RectangleGate of one or two dimensions with any bounds, and
\* render_ellipse on the matrices of exact eigenpairs
RectangleCalls ==
    {[fn |-> "rectangle_overlay", dim_min |-> lo, dim_max |-> hi, dim_count |-> n] :
        n \in {1}, lo \in [1..1 -> OptBounds], hi \in [1..1 -> OptBounds]}
    \cup
    {[fn |-> "rectangle_overlay", dim_min |-> lo, dim_max |-> hi, dim_count |-> n] :
        n \in {2}, lo \in [1..2 -> OptBounds], hi \in [1..2 -> OptBounds]}

CovarianceMatrices ==
    {<<<<a, 0>>, <<0, c>>>> : a \in {1, 4, 9}, c \in {1, 4, 9}}
    \cup {<<<<5, 4>>, <<4, 5>>>>, <<<<5, -4>>, <<-4, 5>>>>}
EllipseCalls ==
    {[fn |-> "render_ellipse", center_x |-> c[1], center_y |-> c[2],
      covariance_matrix |-> m, distance_square |-> d2, sgn |-> sg] :
        c \in {<<Milli(0), Milli(0)>>, <<Milli(1), Milli(-2)>>},
        m \in CovarianceMatrices, d2 \in {1, 4}, sg \in [1..2 -> {1, -1}]}

CallRectangleOverlay ==
    /\ call.fn = "rectangle_overlay"
    /\ out = NotReturned
    /\ out' = [status |-> "ok",
               renderers |-> rectangle_overlay(call.dim_min, call.dim_max, call.dim_count)]
    /\ UNCHANGED <<sample, pc, args, calls, idx_to_plot, seen_indices, ret, call>>

CallRenderEllipse ==
    /\ call.fn = "render_ellipse"
    /\ out = NotReturned
    /\ out' = [status |-> "ok",
               renderers |-> <<render_ellipse(call.center_x, call.center_y,
                                  call.covariance_matrix, call.distance_square, call.sgn)>>]
    /\ UNCHANGED <<sample, pc, args, calls, idx_to_plot, seen_indices, ret, call>>

InitRender == InitCall(RectangleCalls \cup EllipseCalls)
NextRender == CallRectangleOverlay \/ CallRenderEllipse
SpecRender == InitRender /\ [][NextRender]_vars

\* plot_scatter on up to MaxPoints points, with every event mask and highlight
\* mask, with and without bounds, density coloring on and off
PointRows == {<<<<Milli(1), Milli(3)>>, <<Milli(-2), Milli(1)>>>>,
              <<<<Milli(0), Milli(2)>>, <<Milli(0), Milli(2)>>>>}
\* The first n points of a row of points repeated
Points(row, n) == [k \in 1..n |-> row[((k - 1) % Len(row)) + 1]]
Masks(n) == {None} \cup {Some(m) : m \in [1..n -> BOOLEAN]}
ScatterBounds ==
    {NoBounds, SomeBounds,
     [x_min |-> Some(Milli(-1)), x_max |-> None, y_min |-> None, y_max |-> Some(Milli(8))]}
ScatterDensities == {None, Some(1), Some(2)}
\* color_density with the bin_width it is given: the default 4, and 2; the
\* bin width is read only with density coloring
ScatterColoring == {<<FALSE, 4>>, <<TRUE, 4>>, <<TRUE, 2>>}
ScatterCalls ==
    UNION {{[fn |-> "plot_scatter",
             x |-> [k \in 1..n |-> pts[k][1]], y |-> [k \in 1..n |-> pts[k][2]],
             event_mask |-> em, highlight_mask |-> hm,
             x_min |-> b.x_min, x_max |-> b.x_max, y_min |-> b.y_min, y_max |-> b.y_max,
             color_density |-> cd[1], bin_width |-> cd[2], z_interp |-> <<>>] :
               pts \in {Points(row, n) : row \in PointRows}, em \in Masks(n), hm \in Masks(n),
               b \in ScatterBounds, cd \in ScatterColoring} : n \in 0..MaxPoints}

\* The number of points the event mask leaves
Kept(c) == IF IsNone(c.event_mask) THEN Len(c.x) ELSE Len(flatnonzero(Val(c.event_mask)))

CallPlotScatter ==
    /\ call.fn = "plot_scatter"
    /\ out = NotReturned
    /\ \E z \in IF call.color_density THEN [1..Kept(call) -> ScatterDensities] ELSE {<<>>} :
          /\ call' = [call EXCEPT !.z_interp = z]
          /\ out' = plot_scatter(call.x, call.y, "x", "y", call.event_mask,
                                 call.highlight_mask, call.x_min, call.x_max, call.y_min,
                                 call.y_max, call.color_density, call.bin_width, z)
    /\ UNCHANGED <<sample, pc, args, calls, idx_to_plot, seen_indices, ret>>

InitScatter == InitCall(ScatterCalls)
NextScatter == CallPlotScatter
SpecScatter == InitScatter /\ [][NextScatter]_vars

-----------------------------------------------------------------------------
(* Properties of plot_gate *)

GateOf(i) == get_gate(args[i].gate_name)
IsBoolean(i) == GateOf(i).gate_type = "BooleanGate"
DimCount(i) == Len(GateOf(i).dimensions)
Returned(i) == pc[i] = "done" /\ ret[i].status = "ok"

\* The events a mask admits
MaskSet(event_mask) ==
    IF IsNone(event_mask) THEN 1..NEvents ELSE {e \in 1..NEvents : Val(event_mask)[e]}

\* The events drawn in the figure invocation i returned: the event behind each
\* scatter point, or behind each value of the histogram
PlottedEvents(i) ==
    IF ret[i].kind = "scatter"
    THEN {idx_to_plot[i][ret[i].points[j].src] : j \in DOMAIN ret[i].points}
    ELSE {idx_to_plot[i][k] : k \in DOMAIN ret[i].x}
PlottedCount(i) ==
    IF ret[i].kind = "scatter" THEN Len(ret[i].points) ELSE Len(ret[i].x)

\* C1: plot_gate on a Boolean gate raises the Boolean-gate error of line 527,
\* and up to then (and ever after) that invocation has not called
\* sample.subsample_events, whatever its other arguments.
C1_BooleanRejected ==
    \A i \in Invocations : IsBoolean(i) =>
        /\ calls[i].subsample_events = 0
        /\ pc[i] \in {"start", "done"}
        /\ pc[i] = "done" => ret[i] = Raise("TypeError", 527)

C1_Witness ==
    \E i \in Invocations :
        /\ IsBoolean(i) /\ pc[i] = "done" /\ ret[i].status = "TypeError"
        /\ args[i].color_density /\ ~IsNone(args[i].event_mask) /\ ~IsNone(args[i].x_min)

\* C2: for a gate that is not Boolean and has 0 or more than 2 dimensions,
\* plot_gate raises before it calls subsample_events, preprocesses the events
\* or looks a channel up: the no-dimensions error (line 566) for 0, the
\* unsupported-dimensionality error (line 563) above 2; it returns no figure.
C2_BadDimensionCount ==
    \A i \in Invocations : (~IsBoolean(i) /\ DimCount(i) \notin {1, 2}) =>
        /\ calls[i] = NoCalls
        /\ pc[i] \in {"start", "done"}
        /\ pc[i] = "done" =>
              ret[i] = IF DimCount(i) = 0 THEN Raise("ValueError", 566)
                       ELSE Raise("NotImplementedError", 563)

C2_Witness ==
    \E i \in Invocations :
        /\ ~IsBoolean(i) /\ DimCount(i) > 2
        /\ pc[i] = "done" /\ ret[i].status = "NotImplementedError"

C2_WitnessNoDimensions ==
    \E i \in Invocations :
        ~IsBoolean(i) /\ DimCount(i) = 0 /\ pc[i] = "done" /\ ret[i].status = "ValueError"

\* C9: the events drawn in a figure plot_gate returns are exactly those that
\* are in the sample's subsample indices (as plot_gate read them) and admitted
\* by the parent event mask; without a mask, exactly the subsample indices.
\* Each is drawn once.
C9_PlottedIsIntersection ==
    \A i \in Invocations : Returned(i) =>
        /\ PlottedEvents(i) = Range(seen_indices[i]) \cap MaskSet(args[i].event_mask)
        /\ PlottedCount(i) = Cardinality(PlottedEvents(i))

C9_Witness ==
    \E i \in Invocations :
        /\ Returned(i) /\ ret[i].kind = "scatter" /\ ~IsNone(args[i].event_mask)
        /\ Cardinality(Range(seen_indices[i]) \ MaskSet(args[i].event_mask)) > 0
        /\ Cardinality(MaskSet(args[i].event_mask) \ Range(seen_indices[i])) > 0
        /\ Cardinality(PlottedEvents(i)) > 0

\* C10: when the two invocations on the one sample have the same seed and the
\* same subsample count, then however their steps interleave each selects, and
\* draws in the figure it returns, the events it selects when run alone: those
\* of the subsample of its seed and count that its mask admits.
C10_SameSeedNoInterference ==
    \A i, j \in Invocations :
        (i # j /\ args[i].random_seed = args[j].random_seed
               /\ args[i].subsample_count = args[j].subsample_count) =>
            LET alone == {Shuffled(args[i].random_seed)[k] :
                            k \in 1..Min2(args[i].subsample_count, NEvents)}
                         \cap MaskSet(args[i].event_mask)
            IN  /\ pc[i] \in {"render", "done"} => Range(idx_to_plot[i]) = alone
                /\ Returned(i) => PlottedEvents(i) = alone

C10_Witness ==
    \E i, j \in Invocations :
        /\ i # j /\ args[i].random_seed = args[j].random_seed
        /\ args[i].subsample_count = args[j].subsample_count
        /\ Returned(i) /\ Returned(j)
        /\ calls[j].subsample_events = 1
        /\ Range(sample.subsample_indices) # {}
        /\ PlottedEvents(i) # PlottedEvents(j)

-----------------------------------------------------------------------------
(* Properties of the overlay primitives *)

OverlayDone == call.fn = "rectangle_overlay" /\ out.status = "ok"

AnyMissing(bounds) == \E k \in DOMAIN bounds : IsNone(bounds[k])
\* The gate is drawn as ranges: a bound is missing, or it has one dimension
RangeCase == AnyMissing(call.dim_min) \/ AnyMissing(call.dim_max) \/ call.dim_count = 1

\* The bound of an axis that a gate of dim_count dimensions states, or None
BoundAt(bounds, k) == IF k <= Len(bounds) THEN bounds[k] ELSE None

\* The locations of the divider lines of one direction, in the order emitted
RECURSIVE SpanLocations(_, _)
SpanLocations(renderers, dimension) ==
    IF Len(renderers) = 0 THEN <<>>
    ELSE (IF renderers[1].glyph = "Span" /\ renderers[1].dimension = dimension
          THEN <<renderers[1].location>> ELSE <<>>)
         \o SpanLocations(Tail(renderers), dimension)

GlyphCount(renderers, glyph) ==
    Cardinality({k \in DOMAIN renderers : renderers[k].glyph = glyph})

\* C5: a Rectangle gate drawn as ranges gets one vertical line at each x bound
\* that is present and one horizontal line at each y bound that is present,
\* and one box whose four sides are the four bounds, open where the bound is
\* missing; min=[1,None], max=[None,5] gives a vertical line at 1, a horizontal
\* line at 5 and a box with left 1, top 5, right and bottom open.
C5_RangesOneLinePerBound ==
    (OverlayDone /\ RangeCase) =>
        LET r == out.renderers
            left == BoundAt(call.dim_min, 1)
            right == BoundAt(call.dim_max, 1)
            bottom == BoundAt(call.dim_min, 2)
            top == BoundAt(call.dim_max, 2)
        IN  /\ SpanLocations(r, "height") = left \o right
            /\ SpanLocations(r, "width") = bottom \o top
            /\ GlyphCount(r, "BoxAnnotation") = 1
            /\ Len(r) = Len(left) + Len(right) + Len(bottom) + Len(top) + 1
            /\ \A k \in DOMAIN r : r[k].glyph = "BoxAnnotation" =>
                  /\ r[k].left = left /\ r[k].right = right
                  /\ r[k].bottom = bottom /\ r[k].top = top
            /\ (call.dim_min = <<Some(Milli(1)), None>>
                /\ call.dim_max = <<None, Some(Milli(5))>>) =>
                  r = <<Span(Milli(1), "height"), Span(Milli(5), "width"),
                        BoxAnnotation(Some(Milli(1)), None, None, Some(Milli(5)))>>

C5_Witness ==
    /\ OverlayDone
    /\ call.dim_min = <<Some(Milli(1)), None>>
    /\ call.dim_max = <<None, Some(Milli(5))>>
    /\ Len(out.renderers) = 3

C5_WitnessZeroBound ==
    /\ OverlayDone /\ call.dim_count = 1
    /\ call.dim_min = <<Some(0)>> /\ call.dim_max = <<None>>

\* C6: a Rectangle gate is drawn as one filled rectangle and nothing else
\* exactly when it has two dimensions and all four bounds; the rectangle's
\* centre is (min+max)/2 and its size max-min on each axis (mins=[0,0],
\* maxes=[2,4]: centre (1,2), width 2, height 4).  Otherwise it is drawn as
\* ranges: lines and a box, no rectangle.
C6_TrueRectangle ==
    OverlayDone =>
        LET r == out.renderers
            lo == call.dim_min
            hi == call.dim_max
        IN  /\ (Len(r) = 1 /\ r[1].glyph = "Rect") <=> ~RangeCase
            /\ ~RangeCase =>
                  /\ call.dim_count = 2
                  /\ 2 * r[1].x = Val(lo[1]) + Val(hi[1])
                  /\ 2 * r[1].y = Val(lo[2]) + Val(hi[2])
                  /\ r[1].width = Val(hi[1]) - Val(lo[1])
                  /\ r[1].height = Val(hi[2]) - Val(lo[2])
            /\ RangeCase =>
                  /\ GlyphCount(r, "Rect") = 0
                  /\ GlyphCount(r, "BoxAnnotation") = 1
            /\ (lo = <<Some(Milli(0)), Some(Milli(0))>>
                /\ hi = <<Some(Milli(2)), Some(Milli(4))>>) =>
                  /\ r[1].x = Milli(1) /\ r[1].y = Milli(2)
                  /\ r[1].width = Milli(2) /\ r[1].height = Milli(4)

C6_Witness ==
    /\ OverlayDone
    /\ call.dim_min = <<Some(Milli(0)), Some(Milli(0))>>
    /\ call.dim_max = <<Some(Milli(2)), Some(Milli(4))>>
    /\ out.renderers[1].glyph = "Rect"

EllipseDone == call.fn = "render_ellipse" /\ out.status = "ok"
IdentityCall ==
    /\ EllipseDone
    /\ call.covariance_matrix = <<<<1, 0>>, <<0, 1>>>>
    /\ call.distance_square = 1
    /\ call.center_x = 0 /\ call.center_y = 0

\* The direction of an angle of arctan2's range, in degrees
Direction(angle) ==
    CASE angle = 0 -> <<1, 0>>
      [] angle = 45 -> <<1, 1>>
      [] angle = 90 -> <<0, 1>>
      [] angle = 135 -> <<-1, 1>>
      [] angle = 180 -> <<-1, 0>>
      [] angle = -135 -> <<-1, -1>>
      [] angle = -90 -> <<0, -1>>
      [] OTHER -> <<1, -1>>

\* The ellipse is that of the eigenpairs in descending order: with W and H half
\* the width and height, W*W and H*H are distance_square times the two
\* eigenvalues (their sum is the trace, their product the determinant), W >= H,
\* and the direction of the angle is an eigenvector of the larger eigenvalue.
EllipseOfEigenpairs ==
    LET e == out.renderers[1]
        m == call.covariance_matrix
        d2 == call.distance_square
        W == e.width \div Milli(2)
        H == e.height \div Milli(2)
        v == Direction(e.angle)
    IN  /\ e.width = Milli(2) * W /\ e.height = Milli(2) * H
        /\ W >= H /\ H >= 0
        /\ W * W + H * H = d2 * (m[1][1] + m[2][2])
        /\ W * W * H * H = d2 * d2 * (m[1][1] * m[2][2] - m[1][2] * m[2][1])
        /\ d2 * (m[1][1] * v[1] + m[1][2] * v[2]) = W * W * v[1]
        /\ d2 * (m[2][1] * v[1] + m[2][2] * v[2]) = W * W * v[2]
        /\ e.x = call.center_x /\ e.y = call.center_y

\* C7 as stated: ... and for covariance = identity, distance_square = 1,
\* center = (0,0) the ellipse has width = height = 2.0 and angle = 0.
C7_IdentityAngleZero ==
    IdentityCall =>
        /\ out.renderers[1].width = Milli(2) /\ out.renderers[1].height = Milli(2)
        /\ out.renderers[1].angle = 0

\* C7, amended: render_ellipse orders the eigenpairs descending by eigenvalue,
\* takes the angle from the eigenvector ordered first and emits width and
\* height as 2*sqrt(eigenvalue*distance_square); for covariance = identity,
\* distance_square = 1, center = (0,0) the ellipse has width = height = 2.0 and
\* angle = pi/2 (90 degrees): the reversed argsort puts the second of the two
\* equal eigenvalues, whose eigenvector is (0,1), first.
C7_EllipseDescending ==
    EllipseDone =>
        /\ EllipseOfEigenpairs
        /\ IdentityCall =>
              /\ out.renderers[1].width = Milli(2) /\ out.renderers[1].height = Milli(2)
              /\ out.renderers[1].angle = 90

C7_Witness == IdentityCall /\ out.renderers[1].angle = 90

C7_WitnessRotated ==
    /\ EllipseDone /\ call.covariance_matrix = <<<<5, -4>>, <<-4, 5>>>>
    /\ out.renderers[1].angle \in {135, -45} /\ out.renderers[1].width = Milli(6)

-----------------------------------------------------------------------------
(* Properties of _calculate_extent *)

ExtentDone == call.fn = "_calculate_extent" /\ out # NotReturned

SetMin(S) == CHOOSE v \in S : \A w \in S : v <= w
SetMax(S) == CHOOSE v \in S : \A w \in S : v >= w

\* C8: on non-empty data _calculate_extent returns a given bound unchanged and
\* computes a missing one as min(data) - pad*max(|min|,|max|), respectively
\* max(data) + pad*max(|min|,|max|); so with pad = 0 and no bound given it
\* returns (min(data), max(data)), with pad >= 0 the computed bounds enclose
\* the data, and for data 1..5 pad 0 gives (1,5) and pad 0.1 gives (0.5, 5.5).
C8_Extent ==
    (ExtentDone /\ Len(call.data_1d) > 0) =>
        LET lo == SetMin(Range(call.data_1d))
            hi == SetMax(Range(call.data_1d))
            \* 100 * pad * max(|min|, |max|), pad being in percent
            pad100 == call.pad * Max2(Abs(lo), Abs(hi))
            plain == IsNone(call.d_min) /\ IsNone(call.d_max)
        IN  /\ out.status = "ok"
            /\ ~IsNone(call.d_min) => out.d_min = Val(call.d_min)
            /\ ~IsNone(call.d_max) => out.d_max = Val(call.d_max)
            /\ IsNone(call.d_min) =>
                  /\ 100 * out.d_min = 100 * lo - pad100
                  /\ \A k \in DOMAIN call.data_1d : out.d_min <= call.data_1d[k]
            /\ IsNone(call.d_max) =>
                  /\ 100 * out.d_max = 100 * hi + pad100
                  /\ \A k \in DOMAIN call.data_1d : out.d_max >= call.data_1d[k]
            /\ (plain /\ call.pad = 0) => (out.d_min = lo /\ out.d_max = hi)
            /\ (plain /\ Len(call.data_1d) = 5) =>
                  /\ call.pad = 0 => (out.d_min = Milli(1) /\ out.d_max = Milli(5))
                  /\ call.pad = 10 => (out.d_min = 500 /\ out.d_max = 5500)

C8_Witness ==
    /\ ExtentDone /\ Len(call.data_1d) = 5 /\ call.pad = 10
    /\ IsNone(call.d_min) /\ IsNone(call.d_max)
    /\ out.d_min = 500 /\ out.d_max = 5500

C8_WitnessExplicit ==
    /\ ExtentDone /\ call.d_min = Some(Milli(2)) /\ IsNone(call.d_max)
    /\ Len(call.data_1d) > 0
    /\ call.pad = 2 /\ SetMin(Range(call.data_1d)) = Milli(-3) /\ out.d_min = Milli(2)

-----------------------------------------------------------------------------
(* Properties of plot_scatter *)

ScatterDone == call.fn = "plot_scatter" /\ out # NotReturned
HighlightAll(b) ==
    /\ ~IsNone(call.highlight_mask)
    /\ \A k \in DOMAIN Val(call.highlight_mask) : Val(call.highlight_mask)[k] = b

\* C3: when no point is left after the event mask (bounds given or not,
\* density coloring on or off), plot_scatter returns a plot of zero points.
C3_EmptyGivesEmptyPlot ==
    (ScatterDone /\ Kept(call) = 0) => (out.status = "ok" /\ Len(out.points) = 0)

\* C4: a highlight mask that is True for every point gives the points in the
\* order, with the colours and with the alpha 0.4 that no highlight mask gives;
\* a mask that is False for every point gives every point grey (#d3d3d3) with
\* alpha 0.3.
C4_HighlightAllOrNone ==
    (ScatterDone /\ out.status = "ok") =>
        LET unmasked == plot_scatter(call.x, call.y, "x", "y", call.event_mask, None,
                                     call.x_min, call.x_max, call.y_min, call.y_max,
                                     call.color_density, call.bin_width, call.z_interp)
        IN  /\ HighlightAll(TRUE) =>
                  /\ unmasked.status = "ok"
                  /\ out.points = unmasked.points
                  /\ \A k \in DOMAIN out.points : out.points[k].alpha = alpha_highlight
            /\ HighlightAll(FALSE) =>
                  /\ Len(out.points) = Kept(call)
                  /\ \A k \in DOMAIN out.points :
                        out.points[k].color = grey /\ out.points[k].alpha = alpha_dimmed
            /\ IsNone(call.highlight_mask) =>
                  \A k \in DOMAIN out.points : out.points[k].alpha = alpha_highlight

C4_Witness ==
    /\ ScatterDone /\ out.status = "ok" /\ HighlightAll(TRUE)
    /\ call.color_density /\ Len(out.points) = 3
    /\ out.points[1].src # 1
    /\ out.points[1].color # out.points[3].color

C4_WitnessNone ==
    /\ ScatterDone /\ out.status = "ok" /\ HighlightAll(FALSE)
    /\ call.color_density /\ Len(out.points) = 2 /\ out.points[1].src = 3

\* The positions of the call's points that the event mask leaves, ascending
KeptIdx(c) == IF IsNone(c.event_mask) THEN [k \in DOMAIN c.x |-> k]
              ELSE flatnonzero(Val(c.event_mask))
\* The density interpolated for the point at position src of the call: NaN is 0
DensityOf(c, src) ==
    LET kp == CHOOSE k \in DOMAIN KeptIdx(c) : KeptIdx(c)[k] = src
    IN  IF IsNone(c.z_interp[kp]) THEN 0 ELSE Val(c.z_interp[kp])
\* The highlight flag the caller gave the point at position src
FlagOf(c, src) ==
    IF IsNone(c.highlight_mask) THEN None ELSE Some(Val(c.highlight_mask)[src])
\* The position in the density-sorted arrays of the point drawn j-th
SortedPos(j) == CHOOSE k \in DOMAIN out.sorted : out.sorted[k].src = out.points[j].src
Highlit(j) == Val(out.sorted[SortedPos(j)].highlight)

\* C11: with a highlight mask, the final draw order has every point that is not
\* highlighted before every highlighted point; inside each of the two groups
\* the points keep the order the density sort left them in; and every point is
\* drawn with its own x, y, color and alpha.
C11_HighlightedDrawnLast ==
    (ScatterDone /\ out.status = "ok" /\ ~IsNone(call.highlight_mask)) =>
        LET p == out.points
            s == out.sorted
        IN  /\ Len(p) = Len(s)
            /\ {p[j].src : j \in DOMAIN p} = {s[k].src : k \in DOMAIN s}
            /\ \A j \in DOMAIN p :
                  LET k == SortedPos(j)
                  IN  /\ p[j].x = s[k].x /\ p[j].y = s[k].y
                      /\ p[j].color = s[k].color /\ p[j].alpha = s[k].alpha
            /\ \A i, j \in DOMAIN p :
                  i < j => /\ ~(Highlit(i) /\ ~Highlit(j))
                           /\ (Highlit(i) = Highlit(j)) => SortedPos(i) < SortedPos(j)

\* Three points with densities, a highlighted point ahead of one that is not in
\* the density order, drawn after it
C11_Witness ==
    /\ ScatterDone /\ out.status = "ok" /\ ~IsNone(call.highlight_mask)
    /\ call.color_density /\ Len(out.points) = 3
    /\ Val(out.sorted[1].highlight) /\ ~Val(out.sorted[2].highlight)
    /\ Val(out.sorted[3].highlight)
    /\ out.sorted[1].z < out.sorted[2].z
    /\ out.points[1].src = out.sorted[2].src
    /\ out.points[1].color = grey /\ out.points[2].color # grey

\* C12: with density coloring, the points are reordered so that their densities
\* ascend; the one permutation is applied to x, y, the densities and the
\* highlight mask, so every point keeps its coordinates, its density and its
\* highlight flag, and no point is dropped or duplicated.
C12_DensitySort ==
    (ScatterDone /\ out.status = "ok" /\ call.color_density) =>
        LET s == out.sorted
            keep == KeptIdx(call)
        IN  /\ Len(s) = Len(keep)
            /\ {s[k].src : k \in DOMAIN s} = Range(keep)
            /\ \A k, l \in DOMAIN s : k < l => s[k].z <= s[l].z
            /\ \A k \in DOMAIN s :
                  /\ s[k].x = call.x[s[k].src]
                  /\ s[k].y = call.y[s[k].src]
                  /\ s[k].z = DensityOf(call, s[k].src)
                  /\ s[k].highlight = FlagOf(call, s[k].src)

\* Three points whose densities descend as given, one of them highlighted, one
\* density NaN: the sort reverses them
C12_Witness ==
    /\ ScatterDone /\ out.status = "ok" /\ call.color_density
    /\ IsNone(call.event_mask) /\ ~IsNone(call.highlight_mask)
    /\ Len(out.sorted) = 3
    /\ call.z_interp = <<Some(2), Some(1), None>>
    /\ Val(call.highlight_mask) = <<TRUE, FALSE, FALSE>>
    /\ out.sorted[1].src = 3 /\ out.sorted[3].src = 1
    /\ out.sorted[3].highlight = Some(TRUE)

\* The sort also acts under an event mask that removed a point
C12_WitnessMasked ==
    /\ ScatterDone /\ out.status = "ok" /\ call.color_density
    /\ ~IsNone(call.event_mask) /\ Val(call.event_mask) = <<FALSE, TRUE, TRUE>>
    /\ out.sorted[1].src = 3 /\ out.sorted[1].z < out.sorted[2].z

-----------------------------------------------------------------------------
(* Properties of the Quadrant gate overlay *)

\* The values of the dividers of a Quadrant gate that refer to dimension ref
RECURSIVE Thresholds(_, _)
Thresholds(dimensions, ref) ==
    IF Len(dimensions) = 0 THEN <<>>
    ELSE (IF dimensions[1].dimension_ref = ref THEN dimensions[1].values ELSE <<>>)
         \o Thresholds(Tail(dimensions), ref)

\* Two sequences hold the same values, each as many times
SameItems(a, b) ==
    /\ Len(a) = Len(b)
    /\ \A v \in Range(a) \cup Range(b) :
          Cardinality({k \in DOMAIN a : a[k] = v}) = Cardinality({k \in DOMAIN b : b[k] = v})

IsQuadrant(i) == GateOf(i).gate_type = "QuadrantGate"

\* C13: for a Quadrant gate, every threshold of every divider whose reference
\* is the gate's x dimension gives exactly one vertical line at that value and
\* every threshold of every divider whose reference is the y dimension gives
\* exactly one horizontal line; nothing else is overlaid.  This holds whether
\* the reference is a channel name or a fluorochrome of the compensation matrix.
C13_QuadrantDividerLines ==
    \A i \in Invocations :
        (Returned(i) /\ IsQuadrant(i)) =>
            LET gate == GateOf(i)
                ids == dim_ids_ordered(gate)
                r == ret[i].renderers
            IN  /\ SameItems(SpanLocations(r, "height"), Thresholds(gate.dimensions, ids[1]))
                /\ SameItems(SpanLocations(r, "width"), Thresholds(gate.dimensions, ids[2]))
                /\ GlyphCount(r, "Span") = Len(r)

\* C13, for references that are channel names: the lines are as claimed
C13_QuadrantDirectLines ==
    \A i \in Invocations :
        (Returned(i) /\ IsQuadrant(i)
            /\ \A k \in DOMAIN GateOf(i).dimensions :
                  ~IsNone(get_channel_index(GateOf(i).dimensions[k].dimension_ref))) =>
            LET gate == GateOf(i)
                ids == dim_ids_ordered(gate)
                r == ret[i].renderers
            IN  /\ SameItems(SpanLocations(r, "height"), Thresholds(gate.dimensions, ids[1]))
                /\ SameItems(SpanLocations(r, "width"), Thresholds(gate.dimensions, ids[2]))
                /\ GlyphCount(r, "Span") = Len(r)

\* A Quadrant gate on two channel names drawn with its two lines
C13_WitnessDirect ==
    /\ Returned(1) /\ args[1].gate_name = "Quad1"
    /\ ret[1].renderers = <<Span(Milli(2), "height"), Span(Milli(3), "width")>>

\* A Quadrant gate whose x divider names a fluorochrome: the plot is returned,
\* the x axis is the detector's channel, and the divider's line is missing
C13_WitnessFluorochrome ==
    /\ Returned(1) /\ args[1].gate_name = "Quad2"
    /\ ret[1].x_label = <<"CD3", "FL1-H">>
    /\ SpanLocations(ret[1].renderers, "height") = <<>>
    /\ SpanLocations(ret[1].renderers, "width") = <<Milli(3), Milli(4)>>

-----------------------------------------------------------------------------
(* Properties of the radius and of the density bins of plot_scatter *)

BoundsResolved ==
    /\ ~IsNone(out.x_range[1]) /\ ~IsNone(out.x_range[2])
    /\ ~IsNone(out.y_range[1]) /\ ~IsNone(out.y_range[2])
x_extent == Val(out.x_range[2]) - Val(out.x_range[1])
y_extent == Val(out.y_range[2]) - Val(out.y_range[1])

\* C14: the point radius is 0.3% of the larger of the two axis extents
\* (x_max - x_min and y_max - y_min of the resolved display bounds) and the
\* radius dimension is the axis whose extent is the larger, whatever the
\* bounds: also with a negative lower bound, and when the axis with the larger
\* upper bound has the smaller extent.
C14_RadiusOfLargerExtent ==
    (ScatterDone /\ out.status = "ok" /\ BoundsResolved) =>
        /\ out.radius = 3 * Max2(x_extent, y_extent)
        /\ (y_extent > x_extent) => out.radius_dimension = "y"
        /\ (x_extent > y_extent) => out.radius_dimension = "x"

\* What lines 369-374 compute: 0.3% of the larger upper bound
C14_RadiusOfLargerUpperBound ==
    (ScatterDone /\ out.status = "ok") =>
        LET x_max == Val(out.x_range[2])
            y_max == Val(out.y_range[2])
        IN  /\ out.radius = 3 * Max2(x_max, y_max)
            /\ out.radius_dimension = IF y_max > x_max THEN "y" ELSE "x"

\* Points (1,3), (-2,1) without bounds: x spans -2.04..1.04 and y 0.94..3.06;
\* y has the larger upper bound and the smaller extent, and is the radius
\* dimension, the radius 0.3% of 3.06
C14_WitnessUpperBound ==
    /\ ScatterDone /\ out.status = "ok"
    /\ out.x_range = <<Some(-2040), Some(1040)>>
    /\ out.y_range = <<Some(940), Some(3060)>>
    /\ out.radius_dimension = "y" /\ out.radius = 9180

\* round() of the quotient a/b of positive numbers
Round(a, b) == (2 * a + b) \div (2 * b)

\* The per-axis bin count of the claim: round(1/(bin_width*0.003)) scaled by
\* data range over view range, at least 1
RoundedBins(data, v_min, v_max, bin_width) ==
    LET n == IntDiv((SeqMax(data) - SeqMin(data)) * Round(1000, 3 * bin_width), v_max - v_min)
    IN  IF n <= 0 THEN 1 ELSE n

KeptX == Take(call.x, KeptIdx(call))
KeptY == Take(call.y, KeptIdx(call))

\* C15: with density coloring and at least one point, bin_count is
\* round(1/(bin_width*0.003)), each axis gets it scaled by data range over view
\* range and never less than 1 bin, and an axis whose values are all equal, a
\* zero data range or a zero view range gives no error and no NaN density.
C15_BinCounts ==
    (ScatterDone /\ call.color_density /\ Kept(call) > 0) =>
        /\ out.status = "ok"
        /\ out.x_bin_count >= 1 /\ out.y_bin_count >= 1
        /\ out.x_bin_count = RoundedBins(KeptX, Val(out.x_range[1]), Val(out.x_range[2]),
                                         call.bin_width)
        /\ out.y_bin_count = RoundedBins(KeptY, Val(out.y_range[1]), Val(out.y_range[2]),
                                         call.bin_width)
        /\ \A k \in DOMAIN out.sorted : out.sorted[k].z \in Int

\* What holds of lines 379-402: when plot_scatter returns, each axis has at
\* least one bin, int(1/(bin_width*0.003)) of them scaled by the ranges
C15_BinCountsWhenReturned ==
    (ScatterDone /\ call.color_density /\ out.status = "ok") =>
        /\ out.x_bin_count >= 1 /\ out.y_bin_count >= 1
        /\ out.x_bin_count =
              Max2(1, IntDiv((SeqMax(KeptX) - SeqMin(KeptX)) * (1000 \div (3 * call.bin_width)),
                             x_extent))
        /\ out.y_bin_count =
              Max2(1, IntDiv((SeqMax(KeptY) - SeqMin(KeptY)) * (1000 \div (3 * call.bin_width)),
                             y_extent))

\* Every x is 0 and no bound is given: the view range of x is zero and int()
\* of the multiplier raises
C15_WitnessZeroViewRange ==
    /\ ScatterDone /\ call.color_density /\ Kept(call) = 2
    /\ KeptX = <<0, 0>> /\ IsNone(call.x_min) /\ IsNone(call.x_max)
    /\ out = Raise("ValueError", 394)

\* All values of an axis equal inside given bounds: the bin count 0 is made 1
C15_WitnessClamped ==
    /\ ScatterDone /\ call.color_density /\ out.status = "ok"
    /\ Len(KeptX) = 2 /\ KeptX[1] = KeptX[2] /\ KeptY[1] = KeptY[2]
    /\ call.x_min = Some(Milli(-1)) /\ call.x_max = Some(Milli(6))
    /\ out.x_bin_count = 1 /\ out.y_bin_count = 1

\* bin_width 2: the bin count is int(166.67) = 166, and an axis gets 161 bins
\* where 167 would give 162
C15_WitnessTruncated ==
    /\ ScatterDone /\ call.color_density /\ out.status = "ok"
    /\ call.bin_width = 2
    /\ out.x_bin_count = 161
    /\ RoundedBins(KeptX, Val(out.x_range[1]), Val(out.x_range[2]), 2) = 162

====
